---- MODULE Spec2Model ----
(***************************************************************************)
(* Model of the DisjoinSet class (union-find with path compression, union  *)
(* by rank and union by "size") of src/LLD/02_factoryDesignPattern.md,     *)
(* lines 156-205.  One instance is constructed and then driven by an       *)
(* arbitrary sequence of calls of its public methods.                      *)
(*                                                                         *)
(* Further, the getInstance() variants of                                  *)
(* src/LLD/03_singletonDesignPattern.md called by several threads, and the *)
(* NotificationService / NotificationObservable pair of                    *)
(* src/LLD/06_NotficcationSystem.md driven by its main thread.             *)
(*                                                                         *)
(* Last, the two functions dijkstra (src/DSA/Graph/Dijkstra.cpp) and bfs   *)
(* (src/unnamed/part_000), each run statement by statement on the inputs   *)
(* a caller can build.                                                     *)
(***************************************************************************)
EXTENDS Integers, FiniteSets, Sequences, TLC

\* ------------------------------------------------------------------ bounds
\* largest universe size n handed to the constructor (elements 0..n)
MaxN == 2
\* number of union calls made on the instance; it caps the counters the
\* unions grow without limit (rank[v_up]++ and size[..] += size[..])
MaxUnions == 2
\* number of threads calling getInstance()
MaxThreads == 3
\* number of addObserver calls, and of distinct observers
MaxRegs == 2
\* number of notifications handed to sendNotification / setNotification
MaxNotes == 2
\* number of vertices of the graph handed to dijkstra
MaxV == 3
\* largest of the small edge weights
MaxW == 1
\* number of adjacency entries of the graph
MaxEdges == 3
\* largest place of a node in the tree handed to bfs
MaxPos == 6
\* largest val of a TreeNode
MaxVal == 1

VARIABLES
  phase,    \* "new": not constructed; "ok": constructed; "failed": the
            \* constructor threw; "crashed" / "ub": undefined behaviour hit
  n,        \* the constructor argument
  parent,   \* vector<int> parent, as a function on 0..n
  rank,     \* vector<int> rank
  size,     \* vector<int> size
  edges,    \* history: the {u, v} pairs passed to the union calls so far
  unions,   \* history: the number of union calls made so far
  call,     \* the last call: [op, u, v, ret]
  err,      \* the exception the last call surfaced to its caller, or "none"
  \* -- a DisjoinSet method executed one findUp activation at a time
  run,      \* the method in progress: [op, b, pc, r1], or idle; b is the
            \* argument of its second findUp call, r1 the first one's result
  frames,   \* the findUp activations not yet returned, innermost first
  mode,     \* "call": the innermost activation tests its node;
            \* "ret": a value is being returned to the innermost activation
  retv,     \* the value being returned
  \* -- the Singleton write-up and the notification system
  instance, \* static Singleton* instance: 0 is nullptr, k the k-th object
  mtx,      \* static mutex mtx: 0 when free, else the thread holding it
  tpc,      \* where each thread is inside getInstance()
  seen,     \* per thread: the latest value of `instance' it has observed
  created,  \* history: how many times the constructor ran
  returned, \* history, per thread: what its last getInstance() returned
  started,  \* history: whether getInstance() was ever called
  observers,            \* NotificationObservable::observers
  currentNotification,  \* NotificationObservable::currentNotification
  notifications,        \* NotificationService::notifications
  freed,    \* the notifications deleted so far
  updates,  \* history: the update() calls of the last setNotification,
            \* each with the notification current at that moment
  loopAt,   \* index of the observer notifyObservers is about to update,
            \* 0 outside notifyObservers
  npc,      \* where the main thread is inside setNotification
  arg,      \* the argument of the setNotification call in progress
  \* -- dijkstra(adj, V, s)
  adj,      \* the adjacency lists: per vertex a sequence of [weight, adjNode]
  V,        \* the number of vertices, 0 before the caller made the graph
  src,      \* the source vertex s
  dis,      \* vector<int> dis
  pq,       \* the priority queue, as the set of the (distance, vertex) pairs
            \* in it (a pair is pushed at most once: see Relax)
  dNode,    \* `node' of the iteration in progress
  dDist,    \* `d' of the iteration in progress
  edgeAt,   \* index in adj[node] of the entry the for loop is at
  gpc,      \* "none", "build": the caller makes the graph; "loop", "edges":
            \* inside dijkstra; "done": it returned
  \* -- bfs(root)
  tree,     \* the binary tree: node (numbered as in a heap: root 1, children
            \* of i are 2i and 2i+1) |-> val, for the nodes that exist
  bfsq,     \* queue<TreeNode*> q
  ans,      \* vector<vector<int>> ans
  curLevel, \* vector<int> cur
  levelSize, \* int n = q.size()
  levelAt,  \* int i of the for loop
  bpc       \* "build": the caller makes the tree; "while", "for": inside
            \* bfs; "done": it returned

dsVars == <<phase, n, parent, rank, size, edges, unions, call, err>>
runVars == <<run, frames, mode, retv>>
sgVars == <<instance, mtx, tpc, seen, created, returned, started>>
obVars == <<observers, currentNotification, notifications, freed, updates,
            loopAt, npc, arg>>

graphVars == <<adj, V, src, dis, pq, dNode, dDist, edgeAt, gpc>>
treeVars == <<tree, bfsq, ans, curLevel, levelSize, levelAt, bpc>>
algVars == <<graphVars, treeVars>>

vars == <<dsVars, runVars, sgVars, obVars, algVars>>

\* what the atomic DisjoinSet calls leave alone
notDs == <<runVars, sgVars, obVars, algVars>>

NoRet == -9
Elems == 0..n

\* ------------------------------------------------------ the class's methods
\* the constructor with the loop bound `i < n': parent[n] keeps the 0 that
\* parent.resize(n+1) put there
DisjoinSet_LoopStopsEarly(k) ==
  [parent |-> [i \in 0..k |-> IF i < k THEN i ELSE 0],
   rank   |-> [i \in 0..k |-> 0],
   size   |-> [i \in 0..k |-> 1]]

\* DisjoinSet(int n): the three vectors after the constructor body ran
DisjoinSet(k) ==
  [parent |-> [i \in 0..k |-> i],
   rank   |-> [i \in 0..k |-> 0],
   size   |-> [i \in 0..k |-> 1]]

\* findUp without the write-back: `return findUp(parent[node]);'
RECURSIVE findUp_NoCompression(_, _)
findUp_NoCompression(p, node) ==
  IF node = p[node]
    THEN [ret |-> node, parent |-> p]
    ELSE [ret |-> findUp_NoCompression(p, p[node]).ret, parent |-> p]

\* int findUp(int node): the returned root and the parent vector after the
\* recursive compression  `return parent[node] = findUp(parent[node]);'
RECURSIVE findUp(_, _)
findUp(p, node) ==
  IF node = p[node]
    THEN [ret |-> node, parent |-> p]
    ELSE LET r == findUp(p, p[node])
         IN  [ret |-> r.ret, parent |-> [r.parent EXCEPT ![node] = r.ret]]

\* unionByRank whose equal-rank branch bumps the rank but forgets the link
unionByRank_NoLinkOnTie(st, u, v) ==
  LET f1   == findUp(st.parent, u)
      u_up == f1.ret
      f2   == findUp(f1.parent, v)
      v_up == f2.ret
      p    == f2.parent
  IN  IF st.rank[u_up] < st.rank[v_up]
        THEN [st EXCEPT !.parent = [p EXCEPT ![u_up] = v_up]]
        ELSE IF st.rank[u_up] > st.rank[v_up]
          THEN [st EXCEPT !.parent = [p EXCEPT ![v_up] = u_up]]
          ELSE [st EXCEPT !.parent = p,
                          !.rank   = [st.rank EXCEPT ![v_up] = @ + 1]]

\* unionByRank that links the argument u instead of its root in the first
\* branch: `parent[u] = v_up;'
unionByRank_MoveArg(st, u, v) ==
  LET f1   == findUp(st.parent, u)
      u_up == f1.ret
      f2   == findUp(f1.parent, v)
      v_up == f2.ret
      p    == f2.parent
  IN  IF st.rank[u_up] < st.rank[v_up]
        THEN [st EXCEPT !.parent = [p EXCEPT ![u] = v_up]]
        ELSE IF st.rank[u_up] > st.rank[v_up]
          THEN [st EXCEPT !.parent = [p EXCEPT ![v_up] = u_up]]
          ELSE [st EXCEPT !.parent = [p EXCEPT ![u_up] = v_up],
                          !.rank   = [st.rank EXCEPT ![v_up] = @ + 1]]

\* unionByRank whose equal-rank branch links without `rank[v_up]++'
unionByRank_NoRankIncrement(st, u, v) ==
  LET f1   == findUp(st.parent, u)
      u_up == f1.ret
      f2   == findUp(f1.parent, v)
      v_up == f2.ret
      p    == f2.parent
  IN  IF st.rank[u_up] < st.rank[v_up]
        THEN [st EXCEPT !.parent = [p EXCEPT ![u_up] = v_up]]
        ELSE IF st.rank[u_up] > st.rank[v_up]
          THEN [st EXCEPT !.parent = [p EXCEPT ![v_up] = u_up]]
          ELSE [st EXCEPT !.parent = [p EXCEPT ![u_up] = v_up]]

\* unionByRank whose equal-rank branch runs `rank[v_up]--'
unionByRank_RankDecrement(st, u, v) ==
  LET f1   == findUp(st.parent, u)
      u_up == f1.ret
      f2   == findUp(f1.parent, v)
      v_up == f2.ret
      p    == f2.parent
  IN  IF st.rank[u_up] < st.rank[v_up]
        THEN [st EXCEPT !.parent = [p EXCEPT ![u_up] = v_up]]
        ELSE IF st.rank[u_up] > st.rank[v_up]
          THEN [st EXCEPT !.parent = [p EXCEPT ![v_up] = u_up]]
          ELSE [st EXCEPT !.parent = [p EXCEPT ![u_up] = v_up],
                          !.rank   = [st.rank EXCEPT ![v_up] = @ - 1]]

\* unionByRank whose equal-rank branch links the other way round:
\* `parent[v_up] = u_up; rank[v_up]++;'
unionByRank_TieLinksVUnderU(st, u, v) ==
  LET f1   == findUp(st.parent, u)
      u_up == f1.ret
      f2   == findUp(f1.parent, v)
      v_up == f2.ret
      p    == f2.parent
  IN  IF st.rank[u_up] < st.rank[v_up]
        THEN [st EXCEPT !.parent = [p EXCEPT ![u_up] = v_up]]
        ELSE IF st.rank[u_up] > st.rank[v_up]
          THEN [st EXCEPT !.parent = [p EXCEPT ![v_up] = u_up]]
          ELSE [st EXCEPT !.parent = [p EXCEPT ![v_up] = u_up],
                          !.rank   = [st.rank EXCEPT ![v_up] = @ + 1]]

\* void unionByRank(int u, int v)
unionByRank(st, u, v) ==
  LET f1   == findUp(st.parent, u)
      u_up == f1.ret
      f2   == findUp(f1.parent, v)
      v_up == f2.ret
      p    == f2.parent
  IN  IF st.rank[u_up] < st.rank[v_up]
        THEN [st EXCEPT !.parent = [p EXCEPT ![u_up] = v_up]]
        ELSE IF st.rank[u_up] > st.rank[v_up]
          THEN [st EXCEPT !.parent = [p EXCEPT ![v_up] = u_up]]
          ELSE [st EXCEPT !.parent = [p EXCEPT ![u_up] = v_up],
                          !.rank   = [st.rank EXCEPT ![v_up] = @ + 1]]

\* unionBySize whose else branch links the root under the argument u instead
\* of under u's root: `parent[v_up] = u;'
unionBySize_LinkUnderArg(st, u, v) ==
  LET f1   == findUp(st.parent, u)
      u_up == f1.ret
      f2   == findUp(f1.parent, v)
      v_up == f2.ret
      p    == f2.parent
  IN  IF u_up < v_up
        THEN [st EXCEPT !.parent = [p EXCEPT ![u_up] = v_up],
                        !.size   = [st.size EXCEPT ![v_up] = @ + st.size[u_up]]]
        ELSE [st EXCEPT !.parent = [p EXCEPT ![v_up] = u],
                        !.size   = [st.size EXCEPT ![u_up] = @ + st.size[v_up]]]

\* unionBySize that re-parents the arguments instead of their roots:
\* `parent[u] = v_up;' and `parent[v] = u_up;'
unionBySize_MoveArg(st, u, v) ==
  LET f1   == findUp(st.parent, u)
      u_up == f1.ret
      f2   == findUp(f1.parent, v)
      v_up == f2.ret
      p    == f2.parent
  IN  IF u_up < v_up
        THEN [st EXCEPT !.parent = [p EXCEPT ![u] = v_up],
                        !.size   = [st.size EXCEPT ![v_up] = @ + st.size[u_up]]]
        ELSE [st EXCEPT !.parent = [p EXCEPT ![v] = u_up],
                        !.size   = [st.size EXCEPT ![u_up] = @ + st.size[v_up]]]

\* unionBySize with the textbook test on the sizes instead of the indices:
\* `if(size[u_up] < size[v_up])'
unionBySize_ComparesSizes(st, u, v) ==
  LET f1   == findUp(st.parent, u)
      u_up == f1.ret
      f2   == findUp(f1.parent, v)
      v_up == f2.ret
      p    == f2.parent
  IN  IF st.size[u_up] < st.size[v_up]
        THEN [st EXCEPT !.parent = [p EXCEPT ![u_up] = v_up],
                        !.size   = [st.size EXCEPT ![v_up] = @ + st.size[u_up]]]
        ELSE [st EXCEPT !.parent = [p EXCEPT ![v_up] = u_up],
                        !.size   = [st.size EXCEPT ![u_up] = @ + st.size[v_up]]]

\* void unionBySize(int u, int v)
unionBySize(st, u, v) ==
  LET f1   == findUp(st.parent, u)
      u_up == f1.ret
      f2   == findUp(f1.parent, v)
      v_up == f2.ret
      p    == f2.parent
  IN  IF u_up < v_up
        THEN [st EXCEPT !.parent = [p EXCEPT ![u_up] = v_up],
                        !.size   = [st.size EXCEPT ![v_up] = @ + st.size[u_up]]]
        ELSE [st EXCEPT !.parent = [p EXCEPT ![v_up] = u_up],
                        !.size   = [st.size EXCEPT ![u_up] = @ + st.size[v_up]]]

\* isComponent that links the two roots it found, as the unions do
isComponent_Linking(p, v, u, vFirst) ==
  LET a  == IF vFirst THEN v ELSE u
      b  == IF vFirst THEN u ELSE v
      f1 == findUp(p, a)
      f2 == findUp(f1.parent, b)
  IN  [ret |-> (f1.ret = f2.ret),
       parent |-> [f2.parent EXCEPT ![f1.ret] = f2.ret]]

\* bool isComponent(int v, int u): `return findUp(v) == findUp(u);'
\* C++ leaves the order of the two operand evaluations unspecified, so the
\* order is an input: vFirst = TRUE evaluates findUp(v) first.
isComponent(p, v, u, vFirst) ==
  LET a  == IF vFirst THEN v ELSE u
      b  == IF vFirst THEN u ELSE v
      f1 == findUp(p, a)
      f2 == findUp(f1.parent, b)
  IN  [ret |-> (f1.ret = f2.ret), parent |-> f2.parent]

\* ------------------------------------------------------------------ state
cur == [parent |-> parent, rank |-> rank, size |-> size]

DsInit ==
  /\ phase = "new"
  /\ n = -1
  /\ parent = << >>
  /\ rank = << >>
  /\ size = << >>
  /\ edges = {}
  /\ unions = 0
  /\ call = [op |-> "none", u |-> NoRet, v |-> NoRet, ret |-> NoRet]
  /\ err = "none"

Threads == 1..MaxThreads

IdleRun == [op |-> "idle", b |-> NoRet, pc |-> 0, r1 |-> NoRet]

\* no method is executing
RunInit ==
  /\ run = IdleRun
  /\ frames = << >>
  /\ mode = "call"
  /\ retv = NoRet

\* `Singleton* Singleton::instance = nullptr;', the mutex free, no thread
\* inside getInstance()
SgInit ==
  /\ instance = 0
  /\ mtx = 0
  /\ tpc = [t \in Threads |-> "idle"]
  /\ seen = [t \in Threads |-> 0]
  /\ created = 0
  /\ returned = [t \in Threads |-> NoRet]
  /\ started = FALSE

\* the NotificationObservable as `new NotificationObservable()' leaves it
\* (value-initialised: no observers, currentNotification == nullptr)
ObInit ==
  /\ observers = << >>
  /\ currentNotification = 0
  /\ notifications = << >>
  /\ freed = {}
  /\ updates = << >>
  /\ loopAt = 0
  /\ npc = "idle"
  /\ arg = 0

\* no graph and no tree made yet, neither function called
GraphInit ==
  /\ adj = << >>
  /\ V = 0
  /\ src = 0
  /\ dis = << >>
  /\ pq = {}
  /\ dNode = 0
  /\ dDist = 0
  /\ edgeAt = 0
  /\ gpc = "none"

TreeInit ==
  /\ tree = << >>
  /\ bfsq = << >>
  /\ ans = << >>
  /\ curLevel = << >>
  /\ levelSize = 0
  /\ levelAt = 0
  /\ bpc = "build"

Init == DsInit /\ RunInit /\ SgInit /\ ObInit /\ GraphInit /\ TreeInit

\* DisjoinSet ds(k) with k >= 0
Construct(k) ==
  /\ phase = "new"
  /\ k >= 0
  /\ LET st == DisjoinSet(k)
     IN  /\ parent' = st.parent
         /\ rank' = st.rank
         /\ size' = st.size
  /\ n' = k
  /\ phase' = "ok"
  /\ call' = [op |-> "DisjoinSet", u |-> k, v |-> NoRet, ret |-> NoRet]
  /\ UNCHANGED <<edges, unions, err>>
  /\ UNCHANGED notDs

\* ds.findUp(node), node in range
CallFindUp(node) ==
  /\ phase = "ok"
  /\ node \in Elems
  /\ LET f == findUp(parent, node)
     IN  /\ parent' = f.parent
         /\ call' = [op |-> "findUp", u |-> node, v |-> NoRet, ret |-> f.ret]
  /\ UNCHANGED <<phase, n, rank, size, edges, unions, err>>
  /\ UNCHANGED notDs

\* ds.unionByRank(u, v), u and v in range, while fewer than `budget' unions
\* were made
UnionByRankWithin(u, v, budget) ==
  /\ phase = "ok"
  /\ u \in Elems /\ v \in Elems
  /\ unions < budget
  /\ LET st == unionByRank(cur, u, v)
     IN  /\ parent' = st.parent
         /\ rank' = st.rank
         /\ size' = st.size
  /\ edges' = edges \cup {{u, v}}
  /\ unions' = unions + 1
  /\ call' = [op |-> "unionByRank", u |-> u, v |-> v, ret |-> NoRet]
  /\ UNCHANGED <<phase, n, err>>
  /\ UNCHANGED notDs

CallUnionByRank(u, v) == UnionByRankWithin(u, v, MaxUnions)

\* ds.unionBySize(u, v), u and v in range, while fewer than `budget' unions
\* were made
UnionBySizeWithin(u, v, budget) ==
  /\ phase = "ok"
  /\ u \in Elems /\ v \in Elems
  /\ unions < budget
  /\ LET st == unionBySize(cur, u, v)
     IN  /\ parent' = st.parent
         /\ rank' = st.rank
         /\ size' = st.size
  /\ edges' = edges \cup {{u, v}}
  /\ unions' = unions + 1
  /\ call' = [op |-> "unionBySize", u |-> u, v |-> v, ret |-> NoRet]
  /\ UNCHANGED <<phase, n, err>>
  /\ UNCHANGED notDs

CallUnionBySize(u, v) == UnionBySizeWithin(u, v, MaxUnions)

\* ds.isComponent(v, u), u and v in range
CallIsComponent(v, u) ==
  /\ phase = "ok"
  /\ u \in Elems /\ v \in Elems
  /\ \E vFirst \in BOOLEAN :
       LET r == isComponent(parent, v, u, vFirst)
       IN  /\ parent' = r.parent
           /\ call' = [op |-> "isComponent", u |-> v, v |-> u, ret |-> r.ret]
  /\ UNCHANGED <<phase, n, rank, size, edges, unions, err>>
  /\ UNCHANGED notDs

Next ==
  \/ \E k \in 0..MaxN : Construct(k)
  \/ \E node \in Elems : CallFindUp(node)
  \/ \E u, v \in Elems : CallUnionByRank(u, v)
  \/ \E u, v \in Elems : CallUnionBySize(u, v)
  \/ \E u, v \in Elems : CallIsComponent(u, v)

Spec == Init /\ [][Next]_vars

\* The instance used through unionBySize only (with findUp / isComponent)
NextSize ==
  \/ \E k \in 0..MaxN : Construct(k)
  \/ \E node \in Elems : CallFindUp(node)
  \/ \E u, v \in Elems : CallUnionBySize(u, v)
  \/ \E u, v \in Elems : CallIsComponent(u, v)

SpecSize == Init /\ [][NextSize]_vars

\* The instance driven by the unions and findUp alone (isComponent changes
\* the instance only through its two findUp calls)
NextUnions ==
  \/ \E k \in 0..MaxN : Construct(k)
  \/ \E node \in Elems : CallFindUp(node)
  \/ \E u, v \in Elems : CallUnionByRank(u, v)
  \/ \E u, v \in Elems : CallUnionBySize(u, v)

SpecUnions == Init /\ [][NextUnions]_vars

\* One more element and one more union than in the other specifications, by
\* unions alone: the smallest universe in which a union of two distinct roots
\* starts from an argument two parent steps below its root
DeepN == MaxN + 1
DeepUnions == MaxUnions + 1

NextDeep ==
  \/ Construct(DeepN)
  \/ \E u, v \in Elems : UnionByRankWithin(u, v, DeepUnions)
  \/ \E u, v \in Elems : UnionBySizeWithin(u, v, DeepUnions)

SpecDeep == Init /\ [][NextDeep]_vars

\* The instance of DeepN + 1 elements mutated through unionByRank only, and
\* queried: the smallest universe in which union by rank builds a tree of
\* height two.  isComponent(v, u) does to the forest what findUp(v) and
\* findUp(u) do, in either order, so the findUp calls stand for it here.
NextRank ==
  \/ Construct(DeepN)
  \/ \E node \in Elems : CallFindUp(node)
  \/ \E u, v \in Elems : UnionByRankWithin(u, v, DeepUnions)

SpecRank == Init /\ [][NextRank]_vars

\* ------------------------------------------- arguments outside the contract
\* The methods index the vectors with operator[] and the constructor passes
\* n+1 to resize() unchecked.  An index outside 0..n is undefined behaviour:
\* the read yields whatever the neighbouring memory holds, the write lands in
\* neighbouring memory (for the indices next to the range, -1 and n+1, that
\* is the allocator's header or the slack of the buffer, not an element of
\* the three vectors), or the process is killed.  Garbage(k) is the bounded
\* stand-in for the int values such a read can yield.
Garbage(k) == -1..(k + 1)

Crash(st) == [st |-> st, ret |-> NoRet, crashed |-> TRUE]

\* vec[i] read through operator[]
Load(vec, i, k) == IF i \in 0..k THEN {vec[i]} ELSE Garbage(k)

\* parent[i] = val / rank[i] = val written through operator[]
Store(st, field, i, val, k) ==
  IF i \in 0..k
    THEN {[st EXCEPT ![field] = [@ EXCEPT ![i] = val]]}
    ELSE {st}

\* findUp(node) on a constructed instance, node in range or not
findUpAny(st, node, k) ==
  IF node \in 0..k
    THEN LET f == findUp(st.parent, node)
         IN  {[st |-> [st EXCEPT !.parent = f.parent], ret |-> f.ret,
               crashed |-> FALSE]}
    ELSE {Crash(st)}
         \cup {[st |-> st, ret |-> g, crashed |-> FALSE] :
                 g \in Garbage(k) \ (0..k)}
         \cup UNION {LET f == findUp(st.parent, g)
                     IN  {[st |-> s2, ret |-> f.ret, crashed |-> FALSE] :
                            s2 \in Store([st EXCEPT !.parent = f.parent],
                                         "parent", node, f.ret, k)} :
                     g \in 0..k}

\* unionByRank(u, v), u or v possibly out of range
unionByRankAny(st, u, v, k) ==
  UNION {IF o1.crashed THEN {o1} ELSE
    UNION {IF o2.crashed THEN {o2} ELSE
      LET u_up == o1.ret
          v_up == o2.ret
          s    == o2.st
      IN  UNION {UNION {
            IF ru < rv
              THEN {[st |-> t, ret |-> NoRet, crashed |-> FALSE] :
                      t \in Store(s, "parent", u_up, v_up, k)}
              ELSE IF ru > rv
                THEN {[st |-> t, ret |-> NoRet, crashed |-> FALSE] :
                        t \in Store(s, "parent", v_up, u_up, k)}
                ELSE UNION {{[st |-> t2, ret |-> NoRet, crashed |-> FALSE] :
                               t2 \in Store(t, "rank", v_up, rv + 1, k)} :
                            t \in Store(s, "parent", u_up, v_up, k)}
            : rv \in Load(s.rank, v_up, k)} : ru \in Load(s.rank, u_up, k)}
      \cup {Crash(st)}
    : o2 \in findUpAny(o1.st, v, k)}
  : o1 \in findUpAny(st, u, k)}

\* unionBySize(u, v), u or v possibly out of range
unionBySizeAny(st, u, v, k) ==
  UNION {IF o1.crashed THEN {o1} ELSE
    UNION {IF o2.crashed THEN {o2} ELSE
      LET u_up == o1.ret
          v_up == o2.ret
          s    == o2.st
      IN  UNION {UNION {
            IF u_up < v_up
              THEN UNION {{[st |-> t2, ret |-> NoRet, crashed |-> FALSE] :
                             t2 \in Store(t, "size", v_up, sv + su, k)} :
                          t \in Store(s, "parent", u_up, v_up, k)}
              ELSE UNION {{[st |-> t2, ret |-> NoRet, crashed |-> FALSE] :
                             t2 \in Store(t, "size", u_up, su + sv, k)} :
                          t \in Store(s, "parent", v_up, u_up, k)}
            : sv \in Load(s.size, v_up, k)} : su \in Load(s.size, u_up, k)}
      \cup {Crash(st)}
    : o2 \in findUpAny(o1.st, v, k)}
  : o1 \in findUpAny(st, u, k)}

\* isComponent(v, u), u or v possibly out of range
isComponentAny(st, v, u, k) ==
  UNION {UNION {IF o1.crashed THEN {[o1 EXCEPT !.ret = FALSE]} ELSE
    {IF o2.crashed THEN [o2 EXCEPT !.ret = FALSE]
       ELSE [st |-> o2.st, ret |-> (o1.ret = o2.ret), crashed |-> FALSE] :
     o2 \in findUpAny(o1.st, ab[2], k)}
  : o1 \in findUpAny(st, ab[1], k)} : ab \in {<<v, u>>, <<u, v>>}}

\* the state after a call that went out of bounds
Undefined(o, op, u, v) ==
  /\ phase' = IF o.crashed THEN "crashed" ELSE "ub"
  /\ parent' = o.st.parent
  /\ rank' = o.st.rank
  /\ size' = o.st.size
  /\ call' = [op |-> op, u |-> u, v |-> v,
              ret |-> IF o.crashed THEN NoRet ELSE o.ret]
  /\ UNCHANGED <<n, edges, unions, err>>
  /\ UNCHANGED notDs

OutOfRange(x) == x \notin Elems

\* DisjoinSet ds(-1): resize(0) three times, the loop body never runs
ConstructEmpty ==
  /\ phase = "new"
  /\ LET st == DisjoinSet(-1)
     IN  /\ parent' = st.parent
         /\ rank' = st.rank
         /\ size' = st.size
  /\ n' = -1
  /\ phase' = "ok"
  /\ call' = [op |-> "DisjoinSet", u |-> -1, v |-> NoRet, ret |-> NoRet]
  /\ UNCHANGED <<edges, unions, err>>
  /\ UNCHANGED notDs

\* DisjoinSet ds(k), k < -1: n+1 converts to a size_type above max_size()
\* and rank.resize throws std::length_error out of the constructor
ConstructThrows(k) ==
  /\ phase = "new"
  /\ k < -1
  /\ phase' = "failed"
  /\ err' = "length_error"
  /\ call' = [op |-> "DisjoinSet", u |-> k, v |-> NoRet, ret |-> NoRet]
  /\ UNCHANGED <<n, parent, rank, size, edges, unions>>
  /\ UNCHANGED notDs

FindUpOutOfRange(node) ==
  /\ phase = "ok"
  /\ OutOfRange(node)
  /\ \E o \in findUpAny(cur, node, n) : Undefined(o, "findUp", node, NoRet)

UnionByRankOutOfRange(u, v) ==
  /\ phase = "ok"
  /\ OutOfRange(u) \/ OutOfRange(v)
  /\ \E o \in unionByRankAny(cur, u, v, n) : Undefined(o, "unionByRank", u, v)

UnionBySizeOutOfRange(u, v) ==
  /\ phase = "ok"
  /\ OutOfRange(u) \/ OutOfRange(v)
  /\ \E o \in unionBySizeAny(cur, u, v, n) : Undefined(o, "unionBySize", u, v)

IsComponentOutOfRange(v, u) ==
  /\ phase = "ok"
  /\ OutOfRange(u) \/ OutOfRange(v)
  /\ \E o \in isComponentAny(cur, v, u, n) : Undefined(o, "isComponent", v, u)

\* The instance driven with any int arguments (the in-range calls are kept
\* to the constructor and unionBySize, which build every shape of forest)
NextRaw ==
  \/ \E k \in 0..MaxN : Construct(k)
  \/ ConstructEmpty
  \/ \E k \in (-MaxN)..(-2) : ConstructThrows(k)
  \/ \E u, v \in Elems : CallUnionBySize(u, v)
  \/ \E node \in Garbage(n) : FindUpOutOfRange(node)
  \/ \E u, v \in Garbage(n) : UnionByRankOutOfRange(u, v)
  \/ \E u, v \in Garbage(n) : UnionBySizeOutOfRange(u, v)
  \/ \E u, v \in Garbage(n) : IsComponentOutOfRange(u, v)

SpecRaw == Init /\ [][NextRaw]_vars

\* ------------------------------- the methods, one findUp activation a step
\* Each method runs findUp once or twice and then straight-line code.  Here
\* a call of findUp is executed activation by activation: `frames' is the
\* call stack of findUp, a "call" step runs the test `node == parent[node]'
\* of the innermost activation and either returns or recurses, a "ret" step
\* runs the pending `parent[node] = <returned value>' of the activation the
\* value is returned to.

\* lines 179-188: the body of unionByRank after the two findUp calls
linkByRank(st, u_up, v_up) ==
  IF st.rank[u_up] < st.rank[v_up]
    THEN [st EXCEPT !.parent = [@ EXCEPT ![u_up] = v_up]]
    ELSE IF st.rank[u_up] > st.rank[v_up]
      THEN [st EXCEPT !.parent = [@ EXCEPT ![v_up] = u_up]]
      ELSE [st EXCEPT !.parent = [@ EXCEPT ![u_up] = v_up],
                      !.rank   = [@ EXCEPT ![v_up] = @ + 1]]

\* lines 193-200: the body of unionBySize after the two findUp calls
linkBySize(st, u_up, v_up) ==
  IF u_up < v_up
    THEN [st EXCEPT !.parent = [@ EXCEPT ![u_up] = v_up],
                    !.size   = [@ EXCEPT ![v_up] = @ + st.size[u_up]]]
    ELSE [st EXCEPT !.parent = [@ EXCEPT ![v_up] = u_up],
                    !.size   = [@ EXCEPT ![u_up] = @ + st.size[v_up]]]

notRun == <<sgVars, obVars, algVars>>

Running == run.op # "idle"

\* a method is entered: its first findUp call is made.  For isComponent(v, u)
\* either operand of `==' may be evaluated first.
Enter(op, u, v, first) ==
  /\ phase = "ok"
  /\ ~Running
  /\ u \in Elems
  /\ op = "findUp" => v = NoRet /\ first = u
  /\ op # "findUp" => v \in Elems /\ first \in {u, v}
  /\ op \in {"unionByRank", "unionBySize"} => first = u /\ unions < MaxUnions
  /\ run' = [op |-> op,
             b  |-> IF op = "findUp" THEN NoRet
                    ELSE IF first = u THEN v ELSE u,
             pc |-> 1, r1 |-> NoRet]
  /\ frames' = <<first>>
  /\ mode' = "call"
  /\ retv' = NoRet
  /\ UNCHANGED <<dsVars, notRun>>

\* Recurse with the node itself as the argument: `findUp(node)'
Recurse_SameNode(node) ==
  /\ Len(frames) < MaxN + 2
  /\ frames' = <<node>> \o frames

\* the recursive call with the argument the code passes it; the stack has
\* room for one activation per element and one more
Recurse(node) ==
  /\ Len(frames) < MaxN + 2
  /\ frames' = <<parent[node]>> \o frames

\* line 170-173: `if(node == parent[node]) return node;' else the recursive
\* call findUp(parent[node])
FindTest ==
  /\ Running
  /\ mode = "call"
  /\ LET node == Head(frames)
     IN  IF node = parent[node]
           THEN /\ frames' = Tail(frames)
                /\ mode' = "ret"
                /\ retv' = node
           ELSE /\ Recurse(node)
                /\ UNCHANGED <<mode, retv>>
  /\ UNCHANGED <<run, dsVars, notRun>>

\* line 173: `return parent[node] = <value returned by the recursive call>;'
FindAssign ==
  /\ Running
  /\ mode = "ret"
  /\ frames # << >>
  /\ parent' = [parent EXCEPT ![Head(frames)] = retv]
  /\ frames' = Tail(frames)
  /\ UNCHANGED <<run, mode, retv>>
  /\ UNCHANGED <<phase, n, rank, size, edges, unions, call, err, notRun>>

Returned == Running /\ mode = "ret" /\ frames = << >>

BackIdle ==
  /\ run' = IdleRun
  /\ frames' = << >>
  /\ mode' = "call"
  /\ retv' = NoRet

\* The histories `call' and `edges' belong to the calls taken as one step;
\* here `run' says which method is executing and they are left alone.

\* the outermost findUp of a findUp(node) call returned: the call is over
FinishFindUp ==
  /\ Returned
  /\ run.op = "findUp"
  /\ BackIdle
  /\ UNCHANGED <<dsVars, notRun>>

\* the first findUp of a two-argument method returned: the second is called
SecondFind ==
  /\ Returned
  /\ run.op # "findUp"
  /\ run.pc = 1
  /\ run' = [run EXCEPT !.pc = 2, !.r1 = retv]
  /\ frames' = <<run.b>>
  /\ mode' = "call"
  /\ retv' = NoRet
  /\ UNCHANGED <<dsVars, notRun>>

\* lines 179-188 after v_up = findUp(v) returned
FinishUnionByRank ==
  /\ Returned
  /\ run.op = "unionByRank"
  /\ run.pc = 2
  /\ LET st == linkByRank(cur, run.r1, retv)
     IN  /\ parent' = st.parent
         /\ rank' = st.rank
         /\ size' = st.size
  /\ unions' = unions + 1
  /\ BackIdle
  /\ UNCHANGED <<phase, n, edges, call, err, notRun>>

\* lines 193-200 after v_up = findUp(v) returned
FinishUnionBySize ==
  /\ Returned
  /\ run.op = "unionBySize"
  /\ run.pc = 2
  /\ LET st == linkBySize(cur, run.r1, retv)
     IN  /\ parent' = st.parent
         /\ rank' = st.rank
         /\ size' = st.size
  /\ unions' = unions + 1
  /\ BackIdle
  /\ UNCHANGED <<phase, n, edges, call, err, notRun>>

\* line 204: the two values are compared and the result returned
FinishIsComponent ==
  /\ Returned
  /\ run.op = "isComponent"
  /\ run.pc = 2
  /\ BackIdle
  /\ UNCHANGED <<dsVars, notRun>>

\* one step of the method in progress
Step ==
  \/ FindTest
  \/ FindAssign
  \/ FinishFindUp
  \/ SecondFind
  \/ FinishUnionByRank
  \/ FinishUnionBySize
  \/ FinishIsComponent

NextSteps ==
  \/ \E k \in 0..MaxN : Construct(k) /\ ~Running
  \/ \E u \in Elems : Enter("findUp", u, NoRet, u)
  \/ \E u, v \in Elems : Enter("unionByRank", u, v, u)
  \/ \E u, v \in Elems : Enter("unionBySize", u, v, u)
  \/ \E u, v \in Elems : \E first \in {u, v} : Enter("isComponent", u, v, first)
  \/ Step

\* the single thread that owns the instance keeps executing the method it
\* is in: a step that can be taken is taken
SpecSteps == Init /\ [][NextSteps]_vars /\ WF_vars(Step)

\* ------------------------------------------------ Singleton::getInstance()
\* src/LLD/03_singletonDesignPattern.md.  A pointer is 0 (nullptr) or the
\* number k of the k-th Singleton constructed.  Every thread calls
\* getInstance() again and again.

notSg == <<dsVars, runVars, obVars, algVars>>

\* what a read of the plain (non-atomic) `instance' made without holding the
\* mutex can yield to thread t: the current value or, when another thread
\* wrote it without synchronising with t, any older value not older than
\* the one t has already observed (a data race)
Observe(t) == seen[t]..instance

\* `new Singleton()' / `new NotificationService()': the constructor runs and
\* the new object is stored in `instance'.  The NotificationService
\* constructor makes the service's own, empty NotificationObservable.
Construction(t) ==
  /\ created' = created + 1
  /\ instance' = created + 1
  /\ seen' = [seen EXCEPT ![t] = created + 1]
  /\ observers' = << >>
  /\ currentNotification' = 0
  /\ UNCHANGED <<notifications, freed, updates, loopAt, npc, arg>>
  /\ UNCHANGED <<dsVars, runVars, algVars>>

\* ---- 1. simple lazy initialisation (lines 38-43; also
\* NotificationService::getInstance, 06_NotficcationSystem.md 165-170)

LazyCall(t) ==
  /\ tpc[t] = "idle"
  /\ npc = "idle"
  /\ tpc' = [tpc EXCEPT ![t] = "test"]
  /\ started' = TRUE
  /\ UNCHANGED <<instance, mtx, seen, created, returned, notSg>>

\* the branch taken on the value v read by `if(instance == nullptr)'
LazyBranch_AlwaysNew(t, v) ==
  tpc' = [tpc EXCEPT ![t] = "new"]

LazyBranch(t, v) ==
  tpc' = [tpc EXCEPT ![t] = IF v = 0 THEN "new" ELSE "ret"]

\* line 39: `if(instance == nullptr)'
LazyTest(t) ==
  /\ tpc[t] = "test"
  /\ \E v \in Observe(t) :
       /\ seen' = [seen EXCEPT ![t] = v]
       /\ LazyBranch(t, v)
  /\ UNCHANGED <<instance, mtx, created, returned, started, notSg>>

\* the object is constructed only if `instance' is (still) null
LazyNew_ChecksAgain(t) ==
  /\ tpc[t] = "new"
  /\ tpc' = [tpc EXCEPT ![t] = "ret"]
  /\ IF instance = 0
       THEN Construction(t)
       ELSE UNCHANGED <<instance, seen, created, notSg>>
  /\ UNCHANGED <<mtx, returned, started>>

\* line 40: `instance = new Singleton();'
LazyNew(t) ==
  /\ tpc[t] = "new"
  /\ tpc' = [tpc EXCEPT ![t] = "ret"]
  /\ Construction(t)
  /\ UNCHANGED <<mtx, returned, started>>

\* line 42: `return instance;'
LazyReturn(t) ==
  /\ tpc[t] = "ret"
  /\ \E v \in Observe(t) :
       /\ seen' = [seen EXCEPT ![t] = v]
       /\ returned' = [returned EXCEPT ![t] = v]
  /\ tpc' = [tpc EXCEPT ![t] = "idle"]
  /\ UNCHANGED <<instance, mtx, created, started, notSg>>

LazyGetInstance(t) ==
  \/ LazyCall(t)
  \/ LazyTest(t)
  \/ LazyNew(t)
  \/ LazyReturn(t)

NextLazy == \E t \in Threads : LazyGetInstance(t)

SpecLazy == Init /\ [][NextLazy]_vars

\* ---- 2. thread-safe with mutex, always lock (lines 69-75)

MutexCall(t) ==
  /\ tpc[t] = "idle"
  /\ tpc' = [tpc EXCEPT ![t] = "lock"]
  /\ started' = TRUE
  /\ UNCHANGED <<instance, mtx, seen, created, returned, notSg>>

\* the mutex is taken whether or not another thread holds it
Acquire_NoWait(t, to) ==
  /\ tpc[t] = "lock"
  /\ mtx' = t
  /\ seen' = [seen EXCEPT ![t] = instance]
  /\ tpc' = [tpc EXCEPT ![t] = to]

\* `lock_guard<mutex> lock(mtx);': the thread blocks until the mutex is free;
\* taking it synchronises with the last unlock, so the holder observes the
\* current `instance'
Acquire(t, to) ==
  /\ tpc[t] = "lock"
  /\ mtx = 0
  /\ mtx' = t
  /\ seen' = [seen EXCEPT ![t] = instance]
  /\ tpc' = [tpc EXCEPT ![t] = to]

\* line 70
MutexLock(t) ==
  /\ Acquire(t, "test")
  /\ UNCHANGED <<instance, created, returned, started, notSg>>

\* line 71: `if (instance == nullptr)' with the mutex held
MutexTest(t) ==
  /\ tpc[t] = "test"
  /\ tpc' = [tpc EXCEPT ![t] = IF instance = 0 THEN "new" ELSE "ret"]
  /\ UNCHANGED <<instance, mtx, seen, created, returned, started, notSg>>

\* line 72: `instance = new Singleton();'
MutexNew(t) ==
  /\ tpc[t] = "new"
  /\ tpc' = [tpc EXCEPT ![t] = "ret"]
  /\ Construction(t)
  /\ UNCHANGED <<mtx, returned, started>>

\* line 74-75: `return instance;', then the lock_guard releases the mutex
MutexReturn(t) ==
  /\ tpc[t] = "ret"
  /\ returned' = [returned EXCEPT ![t] = instance]
  /\ mtx' = IF mtx = t THEN 0 ELSE mtx
  /\ tpc' = [tpc EXCEPT ![t] = "idle"]
  /\ UNCHANGED <<instance, seen, created, started, notSg>>

MutexGetInstance(t) ==
  \/ MutexCall(t)
  \/ MutexLock(t)
  \/ MutexTest(t)
  \/ MutexNew(t)
  \/ MutexReturn(t)

NextMutex == \E t \in Threads : MutexGetInstance(t)

SpecMutex == Init /\ [][NextMutex]_vars

\* ---- 3. double-checked locking (lines 100-108)

DclCall(t) ==
  /\ tpc[t] = "idle"
  /\ tpc' = [tpc EXCEPT ![t] = "first"]
  /\ started' = TRUE
  /\ UNCHANGED <<instance, mtx, seen, created, returned, notSg>>

\* the first check sends every call to the lock
FirstBranch_AlwaysLock(t, v) ==
  tpc' = [tpc EXCEPT ![t] = "lock"]

\* the branch taken on the value v read by the first check
FirstBranch(t, v) ==
  tpc' = [tpc EXCEPT ![t] = IF v = 0 THEN "lock" ELSE "ret"]

\* line 101: `if (instance == nullptr)', first check, no locking
DclFirstCheck(t) ==
  /\ tpc[t] = "first"
  /\ \E v \in Observe(t) :
       /\ seen' = [seen EXCEPT ![t] = v]
       /\ FirstBranch(t, v)
  /\ UNCHANGED <<instance, mtx, created, returned, started, notSg>>

\* line 102: `lock_guard<mutex> lock(mtx);'
DclLock(t) ==
  /\ Acquire(t, "second")
  /\ UNCHANGED <<instance, created, returned, started, notSg>>

\* the branch taken by the second check
SecondBranch(t) ==
  tpc' = [tpc EXCEPT ![t] = IF instance = 0 THEN "new" ELSE "unlock"]

\* line 103: `if (instance == nullptr)', second check, mutex held
DclSecondCheck(t) ==
  /\ tpc[t] = "second"
  /\ SecondBranch(t)
  /\ UNCHANGED <<instance, mtx, seen, created, returned, started, notSg>>

\* line 104: `instance = new Singleton();'
DclNew(t) ==
  /\ tpc[t] = "new"
  /\ tpc' = [tpc EXCEPT ![t] = "unlock"]
  /\ Construction(t)
  /\ UNCHANGED <<mtx, returned, started>>

\* line 106: the lock_guard goes out of scope
DclUnlock(t) ==
  /\ tpc[t] = "unlock"
  /\ mtx' = IF mtx = t THEN 0 ELSE mtx
  /\ tpc' = [tpc EXCEPT ![t] = "ret"]
  /\ UNCHANGED <<instance, seen, created, returned, started, notSg>>

\* line 107: `return instance;', read without the mutex
DclReturn(t) ==
  /\ tpc[t] = "ret"
  /\ \E v \in Observe(t) :
       /\ seen' = [seen EXCEPT ![t] = v]
       /\ returned' = [returned EXCEPT ![t] = v]
  /\ tpc' = [tpc EXCEPT ![t] = "idle"]
  /\ UNCHANGED <<instance, mtx, created, started, notSg>>

DclGetInstance(t) ==
  \/ DclCall(t)
  \/ DclFirstCheck(t)
  \/ DclLock(t)
  \/ DclSecondCheck(t)
  \/ DclNew(t)
  \/ DclUnlock(t)
  \/ DclReturn(t)

NextDcl == \E t \in Threads : DclGetInstance(t)

SpecDcl == Init /\ [][NextDcl]_vars

\* ------------------------------- NotificationService / NotificationObservable
\* src/LLD/06_NotficcationSystem.md.  main() is thread 1; it gets the service
\* with the lazy getInstance() above and then registers observers and sends
\* notifications.  An observer or a notification is a number (its address);
\* 0 is nullptr.

Main == 1

Observers == 1..MaxRegs

Notes == 1..MaxNotes

notOb == <<dsVars, runVars, sgVars, algVars>>

\* main holds the pointer getInstance() returned and is not inside a call
HasService ==
  /\ returned[Main] # NoRet
  /\ tpc[Main] = "idle"
  /\ npc = "idle"

\* what reading a deleted notification can yield instead of its content
Dangling == -1

\* lines 126-128 (called by the observers' constructors, lines 243-244 and
\* 265-266, or directly): `observers.push_back(obs);'
addObserver(o) ==
  /\ HasService
  /\ Len(observers) < MaxRegs
  /\ observers' = Append(observers, o)
  /\ UNCHANGED <<currentNotification, notifications, freed, updates, loopAt,
                 npc, arg>>
  /\ UNCHANGED notOb

\* lines 172-174: `notifications.push_back(notification);' and the call of
\* observable->setNotification(notification).  The caller hands over a
\* notification it has not deleted.
sendNotification(x) ==
  /\ HasService
  /\ Len(notifications) < MaxNotes
  /\ x \notin freed
  /\ notifications' = Append(notifications, x)
  /\ arg' = x
  /\ npc' = "set"
  /\ updates' = << >>
  /\ UNCHANGED <<observers, currentNotification, freed, loopAt>>
  /\ UNCHANGED notOb

\* line 136: setNotification called on the observable directly
setNotification(x) ==
  /\ HasService
  /\ x \notin freed
  /\ arg' = x
  /\ npc' = "set"
  /\ updates' = << >>
  /\ UNCHANGED <<observers, currentNotification, notifications, freed, loopAt>>
  /\ UNCHANGED notOb

\* lines 137-139: `if (currentNotification != nullptr) delete
\* currentNotification;'.  Deleting an object a second time is undefined:
\* the build goes on or is killed.
SetDelete ==
  /\ npc = "set"
  /\ IF currentNotification = 0
       THEN /\ npc' = "assign"
            /\ UNCHANGED freed
       ELSE IF currentNotification \notin freed
              THEN /\ npc' = "assign"
                   /\ freed' = freed \cup {currentNotification}
              ELSE /\ npc' \in {"assign", "crashed"}
                   /\ UNCHANGED freed
  /\ UNCHANGED <<observers, currentNotification, notifications, updates,
                 loopAt, arg>>
  /\ UNCHANGED notOb

\* line 140: `currentNotification = notification;', then notifyObservers()
\* is called (line 141)
SetAssign ==
  /\ npc = "assign"
  /\ currentNotification' = arg
  /\ npc' = "notify"
  /\ loopAt' = 1
  /\ UNCHANGED <<observers, notifications, freed, updates, arg>>
  /\ UNCHANGED notOb

\* lines 131-133: `observer->update();' for the next observer of the list.
\* update() reads the current notification's content (lines 249, 274); when
\* that object has been deleted the read is undefined: it finds the old
\* content, something else, or the build is killed.
Update ==
  /\ npc = "notify"
  /\ loopAt <= Len(observers)
  /\ \/ /\ \E s \in IF currentNotification \in freed
                      THEN {currentNotification, Dangling}
                      ELSE {currentNotification} :
             updates' = Append(updates, [obs |-> observers[loopAt], saw |-> s])
        /\ loopAt' = loopAt + 1
        /\ UNCHANGED npc
     \/ /\ currentNotification \in freed
        /\ npc' = "crashed"
        /\ UNCHANGED <<updates, loopAt>>
  /\ UNCHANGED <<observers, currentNotification, notifications, freed, arg>>
  /\ UNCHANGED notOb

\* the loop of notifyObservers is over; setNotification (and
\* sendNotification) return
NotifyDone ==
  /\ npc = "notify"
  /\ loopAt > Len(observers)
  /\ npc' = "idle"
  /\ loopAt' = 0
  /\ UNCHANGED <<observers, currentNotification, notifications, freed,
                 updates, arg>>
  /\ UNCHANGED notOb

NextNotify ==
  \/ LazyGetInstance(Main)
  \/ \E o \in Observers : addObserver(o)
  \/ \E x \in Notes : sendNotification(x)
  \/ \E x \in Notes : setNotification(x)
  \/ SetDelete
  \/ SetAssign
  \/ Update
  \/ NotifyDone

SpecNotify == Init /\ [][NextNotify]_vars

\* ------------------------------------------------------- dijkstra(adj, V, s)
\* src/DSA/Graph/Dijkstra.cpp.  The caller makes a graph of V vertices 0..V-1
\* whose adjacency entries are (weight, neighbour) pairs with non-negative
\* int weights, and calls dijkstra once.

INT_MAX == 2147483647

Vertices == 0..(V - 1)

\* the weights the caller uses: the small ones and the largest int
Weights == (0..MaxW) \cup {INT_MAX}

notGraph == <<dsVars, runVars, sgVars, obVars, treeVars>>

\* the number of adjacency entries of the graph
RECURSIVE EdgeCount(_)
EdgeCount(k) == IF k = 0 THEN 0 ELSE Len(adj[k - 1]) + EdgeCount(k - 1)

\* the caller's `vector<vector<pair<int,int>>> adj(V);'
MakeGraph(k) ==
  /\ gpc = "none"
  /\ V' = k
  /\ adj' = [i \in 0..(k - 1) |-> << >>]
  /\ gpc' = "build"
  /\ UNCHANGED <<src, dis, pq, dNode, dDist, edgeAt>>
  /\ UNCHANGED notGraph

\* the caller's `adj[u].push_back({w, v});'
AddEdge(u, v, w) ==
  /\ gpc = "build"
  /\ EdgeCount(V) < MaxEdges
  /\ adj' = [adj EXCEPT ![u] = Append(@, [weight |-> w, adjNode |-> v])]
  /\ UNCHANGED <<V, src, dis, pq, dNode, dDist, edgeAt, gpc>>
  /\ UNCHANGED notGraph

\* lines 5-8: dis(V, INT_MAX), pq.push({0, s}), dis[s] = 0
dijkstra(s0) ==
  /\ gpc = "build"
  /\ src' = s0
  /\ dis' = [i \in Vertices |-> IF i = s0 THEN 0 ELSE INT_MAX]
  /\ pq' = {<<0, s0>>}
  /\ gpc' = "loop"
  /\ UNCHANGED <<adj, V, dNode, dDist, edgeAt>>
  /\ UNCHANGED notGraph

\* pq.top() under greater<>: the least pair, by distance and then by vertex
Top(S) ==
  CHOOSE t \in S : \A o \in S :
    t[1] < o[1] \/ (t[1] = o[1] /\ t[2] <= o[2])

\* lines 9-15: the loop test, top(), pop() and `if(d > dis[node]) continue;'
Pop ==
  /\ gpc = "loop"
  /\ pq # {}
  /\ LET t == Top(pq)
     IN  /\ pq' = pq \ {t}
         /\ dDist' = t[1]
         /\ dNode' = t[2]
         /\ IF t[1] > dis[t[2]]
              THEN UNCHANGED <<gpc, edgeAt>>
              ELSE gpc' = "edges" /\ edgeAt' = 1
  /\ UNCHANGED <<adj, V, src, dis>>
  /\ UNCHANGED notGraph

\* the int `d + weight' of line 19.  When the sum exceeds INT_MAX the signed
\* addition overflows, which is undefined: the build wraps around (val is
\* the sum minus 2^32) or evaluates the comparison as for the true sum,
\* which no int entry of dis exceeds.
Sum(a, w) ==
  IF a <= INT_MAX - w
    THEN {[over |-> FALSE, val |-> a + w]}
    ELSE {[over |-> FALSE, val |-> (((a - INT_MAX) - 1) + w) - INT_MAX - 1],
          [over |-> TRUE, val |-> INT_MAX]}

\* lines 16-22: one entry of adj[node].  A pair pushed carries a distance
\* below every earlier one of that vertex, so no pair is pushed twice.
Relax ==
  /\ gpc = "edges"
  /\ edgeAt <= Len(adj[dNode])
  /\ LET it == adj[dNode][edgeAt]
         weight == it.weight
         adjNode == it.adjNode
     IN  \E sum \in Sum(dDist, weight) :
           IF ~sum.over /\ sum.val < dis[adjNode]
             THEN /\ dis' = [dis EXCEPT ![adjNode] = sum.val]
                  /\ pq' = pq \cup {<<sum.val, adjNode>>}
             ELSE UNCHANGED <<dis, pq>>
  /\ edgeAt' = edgeAt + 1
  /\ UNCHANGED <<adj, V, src, dNode, dDist, gpc>>
  /\ UNCHANGED notGraph

\* the for loop is over: back to the loop test
EndEdges ==
  /\ gpc = "edges"
  /\ edgeAt > Len(adj[dNode])
  /\ gpc' = "loop"
  /\ UNCHANGED <<adj, V, src, dis, pq, dNode, dDist, edgeAt>>
  /\ UNCHANGED notGraph

\* line 25: `return dis;'
ReturnDis ==
  /\ gpc = "loop"
  /\ pq = {}
  /\ gpc' = "done"
  /\ UNCHANGED <<adj, V, src, dis, pq, dNode, dDist, edgeAt>>
  /\ UNCHANGED notGraph

NextDijkstra ==
  \/ \E k \in 1..MaxV : MakeGraph(k)
  \/ \E u, v \in Vertices : \E w \in Weights : AddEdge(u, v, w)
  \/ \E s0 \in Vertices : dijkstra(s0)
  \/ Pop
  \/ Relax
  \/ EndEdges
  \/ ReturnDis

\* the function keeps running until it returns
SpecDijkstra == Init /\ [][NextDijkstra]_vars
                     /\ WF_vars(Pop \/ Relax \/ EndEdges \/ ReturnDis)

\* ------------------------------------------------------------- bfs(root)
\* src/unnamed/part_000.  A TreeNode is named by its place in the tree: the
\* root is 1 and the left and right child of the node p are 2p and 2p + 1;
\* a null pointer is a place that holds no node.  tree maps the places that
\* hold a node to the node's val.

Places == 1..MaxPos
Vals == 0..MaxVal

notTree == <<dsVars, runVars, sgVars, obVars, graphVars>>

\* x->left and x->right, as the set holding the child, empty for nullptr
left(x) == {2 * x} \cap DOMAIN tree
right(x) == {2 * x + 1} \cap DOMAIN tree

\* q.push of a pointer that is tested first (`if(x->left)')
PushIf(queue, child) ==
  IF child = {} THEN queue ELSE Append(queue, CHOOSE c \in child : TRUE)

\* the caller makes a TreeNode: the root, or a child of a node made before
TreeNode(p, val) ==
  /\ bpc = "build"
  /\ p \notin DOMAIN tree
  /\ p = 1 \/ (p \div 2) \in DOMAIN tree
  /\ tree' = [x \in DOMAIN tree \cup {p} |-> IF x = p THEN val ELSE tree[x]]
  /\ UNCHANGED <<bfsq, ans, curLevel, levelSize, levelAt, bpc>>
  /\ UNCHANGED notTree

\* lines 21-28: the call; a null root returns the empty ans at once
bfs ==
  /\ bpc = "build"
  /\ ans' = << >>
  /\ IF DOMAIN tree = {}
       THEN bpc' = "done" /\ UNCHANGED bfsq
       ELSE bpc' = "while" /\ bfsq' = <<1>>
  /\ UNCHANGED <<tree, curLevel, levelSize, levelAt>>
  /\ UNCHANGED notTree

\* lines 29-31: the queue is not empty; n = q.size() and a fresh cur
LevelStart ==
  /\ bpc = "while"
  /\ bfsq # << >>
  /\ levelSize' = Len(bfsq)
  /\ curLevel' = << >>
  /\ levelAt' = 0
  /\ bpc' = "for"
  /\ UNCHANGED <<tree, bfsq, ans>>
  /\ UNCHANGED notTree

\* the loop body with the two pushes the other way round
ForStep_RightFirst ==
  /\ bpc = "for"
  /\ levelAt < levelSize
  /\ LET x == Head(bfsq)
     IN  /\ curLevel' = Append(curLevel, tree[x])
         /\ bfsq' = PushIf(PushIf(Tail(bfsq), right(x)), left(x))
  /\ levelAt' = levelAt + 1
  /\ UNCHANGED <<tree, ans, levelSize, bpc>>
  /\ UNCHANGED notTree

\* lines 32-41: one round of the for loop
ForStep ==
  /\ bpc = "for"
  /\ levelAt < levelSize
  /\ LET x == Head(bfsq)
     IN  /\ curLevel' = Append(curLevel, tree[x])
         /\ bfsq' = PushIf(PushIf(Tail(bfsq), left(x)), right(x))
  /\ levelAt' = levelAt + 1
  /\ UNCHANGED <<tree, ans, levelSize, bpc>>
  /\ UNCHANGED notTree

\* lines 32 and 43: the for loop is over; ans.push_back(cur)
EndLevel ==
  /\ bpc = "for"
  /\ levelAt >= levelSize
  /\ ans' = Append(ans, curLevel)
  /\ bpc' = "while"
  /\ UNCHANGED <<tree, bfsq, curLevel, levelSize, levelAt>>
  /\ UNCHANGED notTree

\* lines 29 and 45: the queue is empty; return ans
ReturnAns ==
  /\ bpc = "while"
  /\ bfsq = << >>
  /\ bpc' = "done"
  /\ UNCHANGED <<tree, bfsq, ans, curLevel, levelSize, levelAt>>
  /\ UNCHANGED notTree

NextBfs ==
  \/ \E p \in Places : \E val \in Vals : TreeNode(p, val)
  \/ bfs
  \/ LevelStart
  \/ ForStep
  \/ EndLevel
  \/ ReturnAns

SpecBfs == Init /\ [][NextBfs]_vars

\* ------------------------------------------------- vocabulary of the claims
\* the node reached from x after at most `fuel' parent steps
RECURSIVE Chase(_, _, _)
Chase(p, x, fuel) ==
  IF fuel = 0 \/ x \notin DOMAIN p \/ p[x] = x THEN x ELSE Chase(p, p[x], fuel - 1)

\* the root of x in the forest p
RootOf(p, x) == Chase(p, x, Cardinality(DOMAIN p))

\* the nodes on the parent path from x up to its root, both included
RECURSIVE PathOf(_, _, _)
PathOf(p, x, fuel) ==
  IF fuel = 0 \/ p[x] = x THEN {x} ELSE {x} \cup PathOf(p, p[x], fuel - 1)

\* the elements in x's set
SetOf(p, x) == {y \in DOMAIN p : RootOf(p, y) = RootOf(p, x)}

\* the vertices reachable from the vertex set S along the undirected edges E
RECURSIVE Reach(_, _)
Reach(E, S) ==
  LET T == S \cup UNION {e \in E : e \cap S # {}}
  IN  IF T = S THEN S ELSE Reach(E, T)

Connected(u, v) == v \in Reach(edges, {u})

UnionOps == {"unionByRank", "unionBySize"}

\* --------------------------------------------------------------- the claims
\* C1: on a DisjoinSet(n), n >= 0, after any sequence of in-range calls,
\* isComponent(u, v) returns true exactly when u and v are connected in the
\* undirected graph whose edges are the pairs passed to the union calls so
\* far (so isComponent(x, x) is always true); the last isComponent call
\* returned that value too.
C1_IsComponentIsConnectivity ==
  phase = "ok" =>
    /\ \A u, v \in Elems : \A vFirst \in BOOLEAN :
         isComponent(parent, v, u, vFirst).ret = Connected(u, v)
    /\ call.op = "isComponent" => call.ret = Connected(call.u, call.v)

\* isComponent answered true for two elements joined only through a third
C1_Witness ==
  /\ phase = "ok"
  /\ call.op = "isComponent"
  /\ call.ret = TRUE
  /\ call.u # call.v
  /\ {call.u, call.v} \notin edges

\* C2: in every state reached by in-range calls the parent mapping is a
\* forest: every parent is an element, and the parent path from every
\* element ends, within n+1 steps, at a self-parented element (so the only
\* cycles are the self-loops at the roots).
C2_ParentIsForest ==
  phase = "ok" =>
    \A i \in Elems :
      /\ parent[i] \in Elems
      /\ parent[RootOf(parent, i)] = RootOf(parent, i)

\* a tree of height two exists
C2_Witness ==
  /\ phase = "ok"
  /\ \E i \in Elems : parent[i] # i /\ parent[parent[i]] # parent[i]

\* C3: on an instance mutated only through unionBySize, size at the root of
\* x is the number of elements in x's set, for every x.
C3_SizeIsCardinality ==
  phase = "ok" =>
    \A x \in Elems :
      size[RootOf(parent, x)] = Cardinality(SetOf(parent, x))

\* C4: unionByRank(u, v) on two elements that already share a root leaves
\* the root of every element and every rank unchanged.
C4_UnionByRankSameSetNoOp ==
  [][(/\ phase = "ok"
      /\ call'.op = "unionByRank"
      /\ RootOf(parent, call'.u) = RootOf(parent, call'.v))
     => (/\ rank' = rank
         /\ \A i \in Elems : RootOf(parent', i) = RootOf(parent, i))]_vars

\* C5: unionBySize(u, v) on two elements that already share a root leaves
\* the root of every element and every size unchanged.
C5_UnionBySizeSameSetNoOp ==
  [][(/\ phase = "ok"
      /\ call'.op = "unionBySize"
      /\ RootOf(parent, call'.u) = RootOf(parent, call'.v))
     => (/\ size' = size
         /\ \A i \in Elems : RootOf(parent', i) = RootOf(parent, i))]_vars

\* C6: findUp(x) returns the root x's parent path led to before the call;
\* after the call every node that was on that path has the root as its
\* parent and the parent of every other node is unchanged.
C6_FindUpCompressesPath ==
  [][(phase = "ok" /\ call'.op = "findUp")
     => LET x    == call'.u
            r    == RootOf(parent, x)
            path == PathOf(parent, x, Cardinality(Elems))
        IN  /\ call'.ret = r
            /\ \A i \in Elems :
                 parent'[i] = IF i \in path THEN r ELSE parent[i]]_vars

\* findUp(0) returned 2 on the chain 0 -> 1 -> 2: the sizes show that root 1
\* absorbed 0 and root 2 then absorbed 1, so parent[0] was 1 until a
\* compression moved it
C6_Witness ==
  /\ phase = "ok"
  /\ n = 2
  /\ call.op = "findUp" /\ call.u = 0 /\ call.ret = 2
  /\ size[1] = 2 /\ size[2] = 3
  /\ parent[0] = 2 /\ parent[1] = 2

\* the root of every element of the forest p
Roots(p) == [i \in DOMAIN p |-> RootOf(p, i)]

\* C7: findUp and isComponent leave the root of every element (hence the
\* partition into sets), every rank and every size as they were, and
\* findUp(x) called again right away returns the same root.
C7_QueriesKeepMembership ==
  [][(phase = "ok" /\ call'.op \in {"findUp", "isComponent"})
     => /\ rank' = rank
        /\ size' = size
        /\ Roots(parent') = Roots(parent)
        /\ call'.op = "findUp"
             => findUp(parent', call'.u).ret = call'.ret]_vars

\* isComponent(0, 1) ran on the chain 0 -> 1 -> 2 (sizes as in C6_Witness)
\* and left both arguments directly under the root
C7_Witness ==
  /\ phase = "ok"
  /\ n = 2
  /\ call.op = "isComponent" /\ call.u = 0 /\ call.v = 1 /\ call.ret = TRUE
  /\ size[1] = 2 /\ size[2] = 3
  /\ parent[0] = 2 /\ parent[1] = 2

\* C8: a method given an element identifier outside 0..n fails with
\* OutOfRange and leaves the instance usable.
C8_OutOfRangeIsReported ==
  (/\ call.op \in {"findUp", "unionByRank", "unionBySize", "isComponent"}
   /\ \/ call.u \notin Elems
      \/ call.op # "findUp" /\ call.v \notin Elems)
  => (err = "OutOfRange" /\ phase = "ok")

\* C9: constructing with a negative n fails with InvalidSize and produces no
\* structure.
C9_NegativeSizeIsReported ==
  (call.op = "DisjoinSet" /\ call.u < 0)
  => (err = "InvalidSize" /\ phase = "failed")

\* C10: merges are irreversible: two elements in one set (the pairs for
\* which isComponent returns true, by C1) before a call are in one set after
\* it.  Stated per element: after the call every element is still in the set
\* of the element that was its root before the call, which covers every pair
\* u, v with a common root r (u with r, and v with r).
C10_MergesAreIrreversible ==
  [][phase = "ok"
     => \A u \in Elems :
          RootOf(parent', u) = RootOf(parent', RootOf(parent, u))]_vars

\* a union of two other sets ran while an earlier pair stayed merged
C10_Witness ==
  /\ phase = "ok"
  /\ call.op \in UnionOps
  /\ unions >= 2
  /\ \E u, v \in Elems :
       /\ u # v
       /\ {u, v} \in edges
       /\ {u, v} # {call.u, call.v}
       /\ isComponent(parent, v, u, TRUE).ret

\* the forests p and q split their elements into the same sets: every
\* element shares its q-set with its p-root and its p-set with its q-root
SamePartition(p, q) ==
  /\ DOMAIN p = DOMAIN q
  /\ \A i \in DOMAIN p :
       /\ RootOf(q, i) = RootOf(q, RootOf(p, i))
       /\ RootOf(p, i) = RootOf(p, RootOf(q, i))

\* C11: in every reachable state and for all in-range u, v, with either
\* union variant, union(u, v) followed by union(v, u) leaves the partition
\* that union(u, v) alone leaves, and union(u, v) and union(v, u) applied to
\* the same state leave the same partition.
C11_UnionIsCommutative ==
  phase = "ok" =>
    \A u, v \in Elems :
      LET r1 == unionByRank(cur, u, v)
          s1 == unionBySize(cur, u, v)
      IN  /\ SamePartition(unionByRank(r1, v, u).parent, r1.parent)
          /\ SamePartition(unionByRank(cur, v, u).parent, r1.parent)
          /\ SamePartition(unionBySize(s1, v, u).parent, s1.parent)
          /\ SamePartition(unionBySize(cur, v, u).parent, s1.parent)

\* a state with a two-element set and an element outside it, where the union
\* of a non-root member with the outsider merges two sets in either order
C11_Witness ==
  /\ phase = "ok"
  /\ \E u, v \in Elems :
       /\ parent[u] # u
       /\ RootOf(parent, u) # RootOf(parent, v)
       /\ ~SamePartition(unionByRank(cur, u, v).parent, parent)
       /\ ~SamePartition(unionBySize(cur, v, u).parent, parent)

\* C13: right after DisjoinSet(n), n >= 0, the three mappings have exactly
\* the indices 0..n, and parent[i] = i, rank[i] = 0 and size[i] = 1 for
\* every i: every element is a singleton set and its own root.
C13_ConstructorMakesSingletons ==
  (phase = "ok" /\ call.op = "DisjoinSet") =>
    /\ DOMAIN parent = 0..n /\ DOMAIN rank = 0..n /\ DOMAIN size = 0..n
    /\ Cardinality(DOMAIN parent) = n + 1
    /\ \A i \in 0..n : parent[i] = i /\ rank[i] = 0 /\ size[i] = 1
    /\ \A i \in 0..n : SetOf(parent, i) = {i}

\* the instance right after DisjoinSet(MaxN)
C13_Witness ==
  /\ phase = "ok"
  /\ call.op = "DisjoinSet"
  /\ n = MaxN
  /\ n >= 1

\* the forest p after the parent paths of u and v were pointed at their roots
Compressed(p, u, v) ==
  LET pu == PathOf(p, u, Cardinality(DOMAIN p))
      pv == PathOf(p, v, Cardinality(DOMAIN p))
  IN  [i \in DOMAIN p |->
         IF i \in pu THEN RootOf(p, u)
         ELSE IF i \in pv THEN RootOf(p, v)
         ELSE p[i]]

\* what unionByRank(u, v) leaves in parent and rank when it starts from the
\* forest `from' with distinct roots ur and vr
RankLinked(from, u, v) ==
  LET ur == RootOf(parent, u)
      vr == RootOf(parent, v)
  IN  IF rank[ur] < rank[vr]
        THEN /\ parent' = [from EXCEPT ![ur] = vr]
             /\ rank' = rank
        ELSE IF rank[ur] > rank[vr]
          THEN /\ parent' = [from EXCEPT ![vr] = ur]
               /\ rank' = rank
          ELSE /\ parent' = [from EXCEPT ![ur] = vr]
               /\ rank' = [rank EXCEPT ![vr] = @ + 1]

DistinctRoots(u, v) == RootOf(parent, u) # RootOf(parent, v)

\* C19 as claimed: unionByRank(u, v) with distinct roots ur, vr changes only
\* parent[ur] (to vr) when rank[ur] < rank[vr], only parent[vr] (to ur) when
\* rank[ur] > rank[vr], and on equal ranks sets parent[ur] to vr and adds 1
\* to rank[vr]; no other rank entry and no size entry changes.
C19_UnionByRankChangesOneParent ==
  [][(/\ phase = "ok"
      /\ call'.op = "unionByRank"
      /\ DistinctRoots(call'.u, call'.v))
     => (RankLinked(parent, call'.u, call'.v) /\ size' = size)]_vars

\* C19 as amended: the same, except that the nodes on the parent paths of u
\* and v are first pointed at their roots by the two findUp calls.
C19_UnionByRankLinksRoots ==
  [][(/\ phase = "ok"
      /\ call'.op = "unionByRank"
      /\ DistinctRoots(call'.u, call'.v))
     => (/\ RankLinked(Compressed(parent, call'.u, call'.v), call'.u, call'.v)
         /\ size' = size)]_vars

\* unionByRank(u, v) ran with u two parent steps below its root: u now sits
\* directly under its old root, which was attached under v's root
C19_Witness ==
  /\ phase = "ok"
  /\ call.op = "unionByRank"
  /\ unions = DeepUnions
  /\ \E m \in Elems \ {call.u} :
       /\ parent[m] = parent[call.u]
       /\ parent[m] \notin {m, call.u}
       /\ size[m] = 2
       /\ size[parent[m]] = 3
       /\ parent[parent[m]] = RootOf(parent, call.v)
       /\ parent[parent[m]] # parent[m]

\* C20: unionBySize(u, v) with distinct roots attaches the root with the
\* smaller index under the root with the larger index whatever the sizes
\* are, makes the surviving root's size the sum of the two roots' sizes and
\* leaves every other size and every rank as it was; the result does not
\* depend on the rank mapping.
C20_UnionBySizeLinksByIndex ==
  [][(/\ phase = "ok"
      /\ call'.op = "unionBySize"
      /\ DistinctRoots(call'.u, call'.v))
     => LET u  == call'.u
            v  == call'.v
            ur == RootOf(parent, u)
            vr == RootOf(parent, v)
            lo == IF ur < vr THEN ur ELSE vr
            hi == IF ur < vr THEN vr ELSE ur
            blank == [cur EXCEPT !.rank = [i \in Elems |-> 0]]
        IN  /\ parent'[lo] = hi
            /\ parent'[hi] = hi
            /\ size' = [size EXCEPT ![hi] = size[ur] + size[vr]]
            /\ rank' = rank
            /\ unionBySize(blank, u, v).parent = parent'
            /\ unionBySize(blank, u, v).size = size']_vars

\* unionBySize attached a root of size 2 under a root of size 1 with a
\* larger index
C20_Witness ==
  /\ phase = "ok"
  /\ call.op = "unionBySize"
  /\ \E lo, hi \in Elems :
       /\ lo < hi
       /\ parent[lo] = hi
       /\ parent[hi] = hi
       /\ size[lo] = 2
       /\ size[hi] = 3
       /\ {call.u, call.v} \cap {i \in Elems : parent[i] = lo \/ i = lo} # {}
       /\ hi \in {call.u, call.v}

\* C12: every method call completes: whenever findUp, unionByRank,
\* unionBySize or isComponent is executing on in-range arguments, it
\* eventually has returned (the recursion of findUp reaches a self-parented
\* node and unwinds).
C12_EveryCallReturns == Running ~> ~Running

\* findUp is three activations deep
C12_Witness ==
  /\ Running
  /\ Len(frames) = 3
  /\ mode = "call"
  /\ parent[Head(frames)] = Head(frames)

\* ---------------------------------------------------- Singleton vocabulary
\* the threads whose last getInstance() call has returned
Callers == {t \in Threads : returned[t] # NoRet}

\* every call so far returned the one, non-null instance
SameInstance == \A t \in Callers : returned[t] # 0 /\ returned[t] = instance

\* thread t takes the mutex in this step
Acquires(t) == mtx # t /\ mtx' = t

\* C15: the simple lazy getInstance() is not thread-safe: a thread that
\* evaluated instance == nullptr goes on to construct a new object and to
\* overwrite `instance', also when another thread has assigned it in the
\* meantime; with two threads past the check before either assigns, the
\* constructor runs more than once and the callers get different instances
\* (the state C15_Witness).
C15_LazyCreatesAfterStaleCheck ==
  [][\A t \in Threads :
       tpc[t] = "new" /\ tpc'[t] = "ret"
         => created' = created + 1 /\ instance' = created + 1]_vars

\* two constructor runs, and two callers holding different instances
C15_Witness ==
  /\ created >= 2
  /\ \E t1, t2 \in Callers : returned[t1] = 1 /\ returned[t2] = 2

\* C16: getInstance() with the mutex always taken: at most one thread at a
\* time is in the check-and-create, the constructor runs at most once and
\* every call returns the same non-null instance.
C16_MutexSingleton ==
  /\ \A t1, t2 \in Threads :
       tpc[t1] \in {"test", "new", "ret"} /\ tpc[t2] \in {"test", "new", "ret"}
         => t1 = t2 /\ mtx = t1
  /\ created <= 1
  /\ SameInstance

\* two calls have returned the instance while a third thread holds the
\* mutex and a further one waits for it
C16_Witness ==
  /\ \E t1, t2 \in Callers : t1 # t2
  /\ \E t1, t2 \in Threads : tpc[t1] = "test" /\ tpc[t2] = "lock"
  /\ instance = 1

\* C17 as stated: with double-checked locking the constructor runs at most
\* once, every call returns the same non-null instance, and once the
\* instance exists no call acquires the mutex.
C17_NoLockOnceInstanceExists ==
  [][/\ created' <= 1
     /\ SameInstance'
     /\ instance # 0 => \A t \in Threads : ~Acquires(t)]_vars

\* C17, amended: with double-checked locking the constructor runs at most
\* once and every call returns the same non-null instance; the mutex is
\* acquired only by a thread that has not yet observed a non-null instance
\* (its first check read nullptr), which can still happen after another
\* thread created the instance.
C17_LockOnlyBeforeObserving ==
  [][/\ created' <= 1
     /\ SameInstance'
     /\ \A t \in Threads : Acquires(t) => seen[t] = 0]_vars

\* a thread whose first check read nullptr holds the mutex at the second
\* check although the instance exists by now
C17_Witness ==
  \E t \in Threads : tpc[t] = "second" /\ mtx = t /\ instance = 1

\* C14: the simple lazy getInstance() used by one thread: no instance exists
\* before the first call, the constructor runs exactly once (on the first
\* call), and every call returns that same instance.
C14_LazySingleThread ==
  /\ ~started => instance = 0 /\ created = 0
  /\ created <= 1
  /\ tpc[Main] = "ret" => created = 1 /\ instance = 1
  /\ returned[Main] # NoRet => created = 1 /\ returned[Main] = 1

\* a later call is about to return, after the first one returned the
\* instance
C14_Witness ==
  /\ returned[Main] = 1
  /\ tpc[Main] = "ret"
  /\ created = 1

\* ------------------------------------------------------ Observer vocabulary
\* the update() calls made on observer o during the last setNotification
UpdatesOf(o) == {i \in DOMAIN updates : updates[i].obs = o}

\* the index of o's first registration
FirstAt(o) == CHOOSE i \in DOMAIN observers :
                /\ observers[i] = o
                /\ \A j \in DOMAIN observers : observers[j] = o => i <= j

Registered == {observers[i] : i \in DOMAIN observers}

\* C18: every setNotification call (so every sendNotification call) invokes
\* update() exactly once on each observer registered before the call, in
\* registration order, and only after currentNotification was set to the
\* new notification, so that each observer sees the new notification.
C18_EachObserverUpdatedOnce ==
  /\ npc # "crashed"
  /\ \A i \in DOMAIN updates :
       /\ currentNotification = arg
       /\ updates[i].saw = arg
       /\ arg \notin freed
  /\ \A i, j \in DOMAIN updates :
       i < j => FirstAt(updates[i].obs) < FirstAt(updates[j].obs)
  /\ npc = "notify" /\ loopAt > Len(observers) =>
       \A o \in Registered : Cardinality(UpdatesOf(o)) = 1

\* ------------------------------------------------------- heights and ranks
\* the number of parent steps from y up to x, or -1 when x is not on the
\* parent path of y
RECURSIVE StepsTo(_, _, _, _)
StepsTo(p, y, x, fuel) ==
  IF y = x THEN 0
  ELSE IF fuel = 0 \/ p[y] = y THEN -1
  ELSE LET s == StepsTo(p, p[y], x, fuel - 1)
       IN  IF s < 0 THEN -1 ELSE s + 1

\* the largest element of a non-empty set of integers
Largest(S) == CHOOSE m \in S : \A k \in S : k <= m

\* the height of the subtree of the forest p rooted at x
Height(p, x) ==
  Largest({StepsTo(p, y, x, Cardinality(DOMAIN p)) : y \in DOMAIN p})

\* C21: on an instance mutated only through unionByRank (with findUp and
\* isComponent), rank[x] is an upper bound on the height of the subtree
\* rooted at x, for every element x.
C21_RankBoundsHeight ==
  phase = "ok" => \A x \in Elems : Height(parent, x) <= rank[x]

\* a tree of height two under a root of rank two
C21_Witness ==
  /\ phase = "ok"
  /\ \E x \in Elems : Height(parent, x) = 2 /\ rank[x] = 2

\* 2^k
RECURSIVE Pow2(_)
Pow2(k) == IF k <= 0 THEN 1 ELSE 2 * Pow2(k - 1)

\* the self-parented elements of the forest p
RootsIn(p) == {r \in DOMAIN p : p[r] = r}

\* C22: after any sequence of in-range unionByRank calls, calls on elements
\* of one set included, every root r has 2^rank[r] <= |set of r|, and so
\* every tree of s elements has height at most floor(log2(s)), that is
\* 2^height <= s.
C22_RankIsLogarithmic ==
  phase = "ok" =>
    \A r \in RootsIn(parent) :
      /\ Pow2(rank[r]) <= Cardinality(SetOf(parent, r))
      /\ Pow2(Height(parent, r)) <= Cardinality(SetOf(parent, r))

\* the methods of a constructed instance
Methods == {"findUp", "unionByRank", "unionBySize", "isComponent"}

\* C23: rank never decreases: across every findUp, unionByRank, unionBySize
\* and isComponent call, rank[x] afterwards is at least rank[x] before, for
\* every element x, and rank[x] is a non-negative integer.
C23_RankNeverDecreases ==
  [][(phase = "ok" /\ call'.op \in Methods)
     => \A x \in Elems : rank'[x] >= rank[x] /\ rank[x] >= 0 /\ rank'[x] >= 0]_vars

\* a rank raised by unionByRank is still there after a unionBySize call
C23_Witness ==
  /\ phase = "ok"
  /\ unions = MaxUnions
  /\ call.op = "unionBySize"
  /\ \E x \in Elems : rank[x] = 1

\* ----------------------------------------------------------- shortest paths
\* The reference the result of dijkstra is compared with.  The total weight
\* of a path is a natural number that may exceed INT_MAX; it is kept as
\* big * INT_MAX + small with 0 <= small < INT_MAX, so that totals are
\* compared by big and then by small.
Total(a, w) ==
  IF w = INT_MAX
    THEN [big |-> a.big + 1, small |-> a.small]
    ELSE IF a.small >= INT_MAX - w
           THEN [big |-> a.big + 1, small |-> a.small - (INT_MAX - w)]
           ELSE [big |-> a.big, small |-> a.small + w]

Less(a, b) == a.big < b.big \/ (a.big = b.big /\ a.small < b.small)

\* the totals of the walks to v made of a known walk and at most one more edge
Cands(known, v) ==
  (IF known[v] = {} THEN {} ELSE known[v])
    \cup {Total(t, adj[u][i].weight) :
            <<u, i, t>> \in {x \in Vertices \X (1..MaxEdges) \X
                                   UNION {known[y] : y \in Vertices} :
                               /\ x[2] <= Len(adj[x[1]])
                               /\ adj[x[1]][x[2]].adjNode = v
                               /\ x[3] \in known[x[1]]}}

\* the least total, as a set of at most one element
Least(S) == {t \in S : \A o \in S : ~Less(o, t)}

\* Bellman-Ford: after the k-th round known[v] holds the least total of the
\* walks from the source to v of at most k edges, and is empty without one
RECURSIVE Shortest(_, _)
Shortest(known, rounds) ==
  IF rounds = 0 THEN known
  ELSE Shortest([v \in Vertices |-> Least(Cands(known, v))], rounds - 1)

MinTotal ==
  Shortest([v \in Vertices |->
              IF v = src THEN {[big |-> 0, small |-> 0]} ELSE {}], V - 1)

\* C24: dijkstra(adj, V, s), on a graph of non-negative int weights and a
\* source 0 <= s < V, returns dis with dis[s] = 0, dis[v] the minimum total
\* weight of the paths from s to v for every reachable v, and dis[v] =
\* INT_MAX for every unreachable v.
C24_DijkstraShortestPaths ==
  gpc = "done" =>
    /\ dis[src] = 0
    /\ \A v \in Vertices :
         IF MinTotal[v] = {}
           THEN dis[v] = INT_MAX
           ELSE \E t \in MinTotal[v] :
                  \/ t.big = 0 /\ dis[v] = t.small
                  \/ t.big = 1 /\ t.small = 0 /\ dis[v] = INT_MAX

\* ------------------------------------------------------ level-order traversal
\* the depth of the node at place p: 0 for the root
RECURSIVE DepthOf(_)
DepthOf(p) == IF p = 1 THEN 0 ELSE 1 + DepthOf(p \div 2)

\* the nodes at depth k; within one depth a smaller place is further left
NodesAt(k) == {p \in DOMAIN tree : DepthOf(p) = k}

\* the vals of the nodes of S from left to right
RECURSIVE LeftToRight(_)
LeftToRight(S) ==
  IF S = {} THEN << >>
  ELSE LET p == CHOOSE m \in S : \A o \in S : m <= o
       IN  <<tree[p]>> \o LeftToRight(S \ {p})

\* the height of the tree, counted in levels: 0 for the empty tree
TreeHeight ==
  IF DOMAIN tree = {} THEN 0
  ELSE 1 + Largest({DepthOf(p) : p \in DOMAIN tree})

\* the number of places of ans that hold the value val
Occurrences(val) ==
  Cardinality({<<k, i>> \in (1..Len(ans)) \X (1..MaxPos) :
                 i <= Len(ans[k]) /\ ans[k][i] = val})

\* the number of places of ans
RECURSIVE Entries(_)
Entries(k) == IF k = 0 THEN 0 ELSE Len(ans[k]) + Entries(k - 1)

\* C25, as stated: bfs(root) returns the level-order traversal of the binary
\* tree: the empty list for a null root; otherwise the k-th inner list holds
\* exactly the values of the nodes at depth k (the root's being the first)
\* from left to right, no inner list is empty, there are as many inner lists
\* as the tree has levels, and every node's value appears exactly once
\* overall.
C25_EveryValueOnce ==
  bpc = "done" =>
    /\ DOMAIN tree = {} => ans = << >>
    /\ Len(ans) = TreeHeight
    /\ \A k \in 1..Len(ans) :
         /\ ans[k] = LeftToRight(NodesAt(k - 1))
         /\ ans[k] # << >>
    /\ \A p \in DOMAIN tree : Occurrences(tree[p]) = 1

\* C25, amended: as above, but every node contributes exactly one entry:
\* ans holds as many values as the tree has nodes, so a value appears once
\* for each node that carries it, and exactly once when one node only does.
C25_BfsLevelOrder ==
  bpc = "done" =>
    /\ DOMAIN tree = {} => ans = << >>
    /\ Len(ans) = TreeHeight
    /\ \A k \in 1..Len(ans) :
         /\ ans[k] = LeftToRight(NodesAt(k - 1))
         /\ ans[k] # << >>
    /\ Entries(Len(ans)) = Cardinality(DOMAIN tree)
    /\ \A val \in Vals :
         Occurrences(val) = Cardinality({p \in DOMAIN tree : tree[p] = val})

\* bfs has returned three levels, the second with a left and a right node,
\* and two nodes of the tree carry the same val
C25_Witness ==
  /\ bpc = "done"
  /\ Len(ans) = 3
  /\ {2, 3} \subseteq DOMAIN tree
  /\ tree[2] # tree[3]
  /\ ans[2] = <<tree[2], tree[3]>>
  /\ \E p \in DOMAIN tree : Occurrences(tree[p]) = 2

====
